---- MODULE Spec2Model ----
(***************************************************************************)
(* Model of the join negotiation of sugar.presence.activity: the           *)
(* _JoinCommand coordinator, the D-Bus calls it issues, the replies and    *)
(* signals the event loop hands back to it, and the 'finished' signal it   *)
(* emits.  One action is one callback run to completion on the single      *)
(* threaded main loop.                                                     *)
(***************************************************************************)
EXTENDS Integers, Sequences, FiniteSets, Bags, TLC

\* ------------------------------------------------------------------ bounds
MaxHandle == 2          \* contact handles are 1..MaxHandle
FlagBits == 2           \* width of the group-flags bitset
MaxSignals == 2         \* unsolicited group signals the bus sends in one run
MaxRuns == 2            \* run() calls a caller makes on one coordinator
MaxSpecs == 2           \* property specs in one ListProperties reply
MaxCalls == 2           \* join() and share() calls made on one Activity

\* --------------------------------------------------------------- constants
PROPERTY_FLAG_WRITE == 2

\* ------------------------------------------------------------------ values
None == "None"                 \* Python None as the argument of 'finished'
NoChannel == "NoChannel"       \* text_channel / tubes_channel = None
TextPath == "/chan/text"
TubesPath == "/chan/tubes"
NoHandle == 0                  \* _self_handle not assigned yet
NoFlags == -1                  \* _text_channel_group_flags = None

Handles == 1..MaxHandle
FlagValues == 0..(2^FlagBits - 1)

\* The remote calls of _JoinCommand.  The error object of a failed call is
\* identified with the call that failed, so that errors are told apart.
RequestChannelText == "RequestChannelText"
RequestChannelTubes == "RequestChannelTubes"
TextReady == "TextReady"
TubesReady == "TubesReady"
GetSelfHandle == "GetSelfHandle"
GetGroupFlags == "GetGroupFlags"
GetAllMembers == "GetAllMembers"
AddMembers == "AddMembers"
ListProperties == "ListProperties"
SetProperties == "SetProperties"

\* The calls of _ShareCommand.
RequestHandles == "RequestHandles"
AddActivity == "AddActivity"
ShareOps == {RequestHandles, AddActivity}

RemoteCalls == {RequestChannelText, RequestChannelTubes, GetSelfHandle,
                GetGroupFlags, GetAllMembers, AddMembers, ListProperties,
                SetProperties}
Ops == RemoteCalls \cup {TextReady, TubesReady}

\* Calls whose error_handler is __error_handler_cb.
ErrorRouted == {RequestChannelText, RequestChannelTubes, GetSelfHandle,
                GetGroupFlags, GetAllMembers}

GroupFlagsChanged == "GroupFlagsChanged"
MembersChanged == "MembersChanged"
Signals == {GroupFlagsChanged, MembersChanged}

\* The policy table of __join_activity_channel_props_listed_cb.
props == [n \in {"anonymous", "invite-only", "invite-restricted",
                 "persistent", "private"} |-> (n = "private")]

\* flags & PROPERTY_FLAG_WRITE
Writable(flags) == (flags \div PROPERTY_FLAG_WRITE) % 2 = 1

\* The property specs a ListProperties reply may hold: (ident, name, sig,
\* flags) without the signature, names distinct, ident the position.
PropNames == DOMAIN props \cup {"subject"}
SpecsOfLen(n) ==
    { [i \in 1..n |-> [ident |-> i, name |-> f[i].name, flags |-> f[i].flags]] :
        f \in { g \in [1..n -> [name : PropNames, flags : 0..3]] :
                   \A i, j \in 1..n : i # j => g[i].name # g[j].name } }
PropSpecLists == UNION { SpecsOfLen(n) : n \in 0..MaxSpecs }

\* What the text channel of the room offers: whether it has the Properties
\* interface and, if so, the property specs ListProperties would return.
ChannelKinds ==
    { [iface |-> FALSE, specs |-> << >>],
      [iface |-> TRUE,  specs |-> << [name |-> "private", flags |-> 1 + PROPERTY_FLAG_WRITE] >>],
      [iface |-> TRUE,  specs |-> << [name |-> "private", flags |-> 1] >>] }

VARIABLES
    finished,                  \* _JoinCommand._finished
    text_channel,              \* _JoinCommand.text_channel
    tubes_channel,             \* _JoinCommand.tubes_channel
    self_handle,               \* _JoinCommand._self_handle
    text_channel_group_flags,  \* _JoinCommand._text_channel_group_flags
    emitted,                   \* arguments of every 'finished' emitted, in order
    raised,                    \* exceptions raised out of run() or a callback
    pending,                   \* bag of calls issued and not yet answered
    issued,                    \* per call, how often it was issued
    succeeded,                 \* calls whose reply_handler has run
    failed,                    \* calls whose error_handler has run
    subs,                      \* per signal, how many handlers are connected
    announce,                  \* handles the room admitted on AddMembers, not yet signalled
    nsignals,                  \* unsolicited signals sent so far
    runs,                      \* run() calls made so far
    text_props,                \* the text channel's ChannelKinds entry
    flag_trace_on,             \* whether the flag changes handled are recorded
    flag_log,                  \* the flag changes handled, when recorded
    prop_specs,                \* the prop_specs handed to the props-listed callback
    props_to_set,              \* the props_to_set it computed
    props_pc,                  \* "idle" before that callback has run, "done" after
    listener,                  \* who is connected to the coordinator's 'finished'
    share,                     \* the _ShareCommand: its fields, its calls, its 'finished'
    activity                   \* the Activity: its fields, its handlers, its signals

vars == << finished, text_channel, tubes_channel, self_handle,
           text_channel_group_flags, emitted, raised, pending, issued,
           succeeded, failed, subs, announce, nsignals, runs, text_props,
           flag_trace_on, flag_log, prop_specs, props_to_set, props_pc,
           listener, share, activity >>

\* What _JoinCommand's callbacks leave alone unless said otherwise.
fnVars == << flag_trace_on, flag_log, prop_specs, props_to_set, props_pc >>

coord == << finished, text_channel, tubes_channel, self_handle,
            text_channel_group_flags >>

\* ----------------------------------------------------------------- helpers
Call(op, arg) == [op |-> op, arg |-> arg]

Issue(calls) == pending (+) SetToBag(calls)
Answer(call) == pending (-) SetToBag({call})
Count(ops) == [o \in Ops |-> IF o \in ops THEN issued[o] + 1 ELSE issued[o]]

RECURSIVE BitOr(_, _)
BitOr(a, b) ==
    IF a = 0 /\ b = 0 THEN 0
    ELSE (IF a % 2 = 1 \/ b % 2 = 1 THEN 1 ELSE 0) + 2 * BitOr(a \div 2, b \div 2)

\* a & ~b
RECURSIVE BitAndNot(_, _)
BitAndNot(a, b) ==
    IF a = 0 THEN 0
    ELSE (IF a % 2 = 1 /\ b % 2 = 0 THEN 1 ELSE 0) + 2 * BitAndNot(a \div 2, b \div 2)

Range(s) == {s[i] : i \in 1..Len(s)}

InitCoord ==
    /\ finished = FALSE
    /\ text_channel = NoChannel
    /\ tubes_channel = NoChannel
    /\ self_handle = NoHandle
    /\ text_channel_group_flags = NoFlags
    /\ emitted = << >>
    /\ raised = {}
    /\ pending = EmptyBag
    /\ issued = [o \in Ops |-> 0]
    /\ succeeded = {}
    /\ failed = {}
    /\ subs = [s \in Signals |-> 0]
    /\ announce = {}
    /\ nsignals = 0
    /\ runs = 0

InitJoin ==
    /\ InitCoord
    /\ text_props \in ChannelKinds

InitFn ==
    /\ flag_trace_on = FALSE
    /\ flag_log = << >>
    /\ prop_specs = << >>
    /\ props_to_set = << >>
    /\ props_pc = "idle"

\* _ShareCommand.__init__, with nothing called yet.
NewShare ==
    [finished |-> FALSE, text_channel |-> NoChannel,
     tubes_channel |-> NoChannel, room_handle |-> NoHandle,
     emitted |-> << >>, runs |-> 0,
     issued |-> [o \in ShareOps |-> 0], answered |-> [o \in ShareOps |-> 0],
     succeeded |-> {}, failed |-> {}]

\* Activity.__init__(connection, room_handle, properties), 'joined' being
\* properties.get('joined', False); nothing called yet.
NewActivity(room_handle, joined) ==
    [room_handle |-> room_handle, joined |-> joined, was_joined |-> joined,
     telepathy_text_chan |-> NoChannel, telepathy_tubes_chan |-> NoChannel,
     join_command |-> FALSE,      \* _join_command is not None
     joins_started |-> 0,         \* _JoinCommands created by join()
     later_joins |-> 0,           \* of those, the ones whose callbacks are not followed
     closing |-> FALSE,           \* leave() has called Close()
     closed |-> FALSE,            \* the text channel has sent Closed
     share_commands |-> 0,        \* _ShareCommands created by share()
     more_lookups |-> 0,          \* of those after the first, still looking up
     members_subs |-> 0,          \* handlers connected to MembersChanged
     closed_subs |-> 0,           \* handlers connected to Closed
     join_calls |-> 0, share_calls |-> 0,
     joined_log |-> << >>,        \* 'joined' signals emitted
     watched |-> FALSE,           \* whether its buddy signals are recorded
     buddy_log |-> << >>,         \* 'buddy-joined' / 'buddy-left' signals emitted, when recorded
     share_log |-> << >>,         \* share_activity_cb (None) / _error_cb (error) calls
     raised |-> {}]

\* A coordinator somebody constructs has no handler connected yet.
InitOut ==
    /\ listener = "none"
    /\ share = NewShare
    /\ activity = NewActivity(NoHandle, FALSE)

Init == InitJoin /\ InitFn /\ InitOut

\* ------------------------------------------------- the coordinator's code
\* The handlers below that may run nested inside another handler are
\* operators on c = [finished, emitted], the part of the coordinator they
\* write; the actions further down apply them.

\* A faulty variant: sets the flag and forgets to emit.
error_handler_cb_no_emit(c, error) ==
    [finished |-> TRUE, emitted |-> c.emitted]

\* __error_handler_cb(error)
error_handler_cb(c, error) ==
    [finished |-> TRUE, emitted |-> Append(c.emitted, error)]

\* A faulty variant: finishes on any membership change, whoever was added.
text_channel_members_changed_cb_any(c, added) ==
    [finished |-> TRUE, emitted |-> Append(c.emitted, None)]

\* A faulty variant: sets the flag and forgets to emit.
text_channel_members_changed_cb_no_emit(c, added) ==
    IF self_handle \in added
    THEN [finished |-> TRUE, emitted |-> c.emitted]
    ELSE c

\* A faulty variant: emits and forgets to set the flag.
text_channel_members_changed_cb_no_flag(c, added) ==
    IF self_handle \in added
    THEN [finished |-> c.finished, emitted |-> Append(c.emitted, None)]
    ELSE c

\* __text_channel_members_changed_cb(message, added, removed, ...): the code
\* up to its unconditional return.
text_channel_members_changed_cb(c, added) ==
    IF self_handle \in added
    THEN [finished |-> TRUE, emitted |-> Append(c.emitted, None)]
    ELSE c

\* A faulty variant: clears 'removed' before it sets 'added'.
text_channel_group_flags_changed_cb_remove_first(flags, added, removed) ==
    BitOr(BitAndNot(flags, removed), added)

\* __text_channel_group_flags_changed_cb(added, removed), flags being set.
text_channel_group_flags_changed_cb(flags, added, removed) ==
    BitAndNot(BitOr(flags, added), removed)

\* A faulty variant: "and" for "or" in the early return.
tubes_ready_either(text, tubes) ==
    ~(text = NoChannel /\ tubes = NoChannel)

\* _tubes_ready(): TRUE when it goes on to _add_self_to_channel().
tubes_ready(text, tubes) ==
    ~(text = NoChannel \/ tubes = NoChannel)

\* _add_self_to_channel(): the call it issues.
add_self_to_channel == {Call(GetSelfHandle, 0)}

\* A signal reaches every handler connected to it, one after the other.
RECURSIVE DeliverMembersChanged(_, _, _)
DeliverMembersChanged(c, added, n) ==
    IF n = 0 THEN c
    ELSE DeliverMembersChanged(text_channel_members_changed_cb(c, added), added, n - 1)

RECURSIVE DeliverFlagsChanged(_, _, _, _)
DeliverFlagsChanged(flags, added, removed, n) ==
    IF n = 0 THEN flags
    ELSE DeliverFlagsChanged(
            text_channel_group_flags_changed_cb(flags, added, removed),
            added, removed, n - 1)

Here == [finished |-> finished, emitted |-> emitted]

\* _ShareCommand.__joined_cb(join_command, error), the handler of the inner
\* coordinator's 'finished'; text and tubes are join_command's channels.
\* A faulty variant: registers the activity whatever the join reported.
share_joined_cb_always_registers(s, error, text, tubes) ==
    [s EXCEPT !.text_channel = text, !.tubes_channel = tubes,
              !.issued[AddActivity] = @ + 1]

\* A faulty variant: takes over the text channel only.
share_joined_cb_text_only(s, error, text, tubes) ==
    IF error # None
    THEN [s EXCEPT !.finished = TRUE, !.emitted = Append(@, error)]
    ELSE [s EXCEPT !.text_channel = text, !.issued[AddActivity] = @ + 1]

share_joined_cb(s, error, text, tubes) ==
    IF error # None
    THEN [s EXCEPT !.finished = TRUE, !.emitted = Append(@, error)]
    ELSE [s EXCEPT !.text_channel = text, !.tubes_channel = tubes,
                   !.issued[AddActivity] = @ + 1]

\* The handler run once for each 'finished' in es, in order: emit() calls
\* the connected handlers before it returns.
RECURSIVE ShareHears(_, _, _, _)
ShareHears(s, es, text, tubes) ==
    IF es = << >> THEN s
    ELSE ShareHears(share_joined_cb(s, Head(es), text, tubes), Tail(es),
                    text, tubes)

\* Activity.__joined_cb(join_command, error); text and tubes are
\* join_command's channels.  On success it starts tracking buddies and the
\* channel.
\* A faulty variant: takes over the channels whatever the coordinator reported.
activity_joined_cb_always_copies(a, error, text, tubes) ==
    LET b == IF error = None
             THEN [a EXCEPT !.joined = TRUE,
                            !.telepathy_text_chan = text,
                            !.telepathy_tubes_chan = tubes,
                            !.members_subs = @ + 1,
                            !.closed_subs = @ + 1]
             ELSE [a EXCEPT !.telepathy_text_chan = text,
                            !.telepathy_tubes_chan = tubes]
    IN  [b EXCEPT !.joined_log =
                     Append(@, [success |-> error = None, message |-> error])]

\* A faulty variant: drops the coordinator once it has reported.
activity_joined_cb_drops_command(a, error, text, tubes) ==
    LET b == IF error = None
             THEN [a EXCEPT !.joined = TRUE,
                            !.telepathy_text_chan = text,
                            !.telepathy_tubes_chan = tubes,
                            !.members_subs = @ + 1,
                            !.closed_subs = @ + 1]
             ELSE a
    IN  [b EXCEPT !.join_command = FALSE,
                  !.joined_log =
                     Append(@, [success |-> error = None, message |-> error])]

activity_joined_cb(a, error, text, tubes) ==
    LET b == IF error = None
             THEN [a EXCEPT !.joined = TRUE,
                            !.telepathy_text_chan = text,
                            !.telepathy_tubes_chan = tubes,
                            !.members_subs = @ + 1,
                            !.closed_subs = @ + 1]
             ELSE a
    IN  [b EXCEPT !.joined_log =
                     Append(@, [success |-> error = None, message |-> error])]

\* Activity.__shared_cb(share_activity_cb, share_activity_error_cb,
\* share_command, error), s being share_command.  _publish_properties makes
\* a blocking SetProperties call on the connection, which returns
\* (published) or raises and so ends the handler.
activity_shared_cb(a, s, error, published) ==
    IF error = None
    THEN LET b == [a EXCEPT !.joined = TRUE,
                            !.room_handle = s.room_handle,
                            !.telepathy_text_chan = s.text_channel,
                            !.telepathy_tubes_chan = s.tubes_channel]
         IN  IF published
             THEN [b EXCEPT !.members_subs = @ + 1,
                            !.closed_subs = @ + 1,
                            !.share_log = Append(@, None)]
             ELSE [b EXCEPT !.raised = @ \cup {"DBusException"}]
    ELSE [a EXCEPT !.share_log = Append(@, error)]

\* Activity.__text_channel_closed_cb()
activity_text_channel_closed_cb(a) ==
    [a EXCEPT !.joined = FALSE,
              !.joined_log = Append(@, [success |-> FALSE,
                                        message |-> "left activity"])]

RECURSIVE ActivityHearsClosed(_, _)
ActivityHearsClosed(a, n) ==
    IF n = 0 THEN a
    ELSE ActivityHearsClosed(activity_text_channel_closed_cb(a), n - 1)

\* The handles of a set, in the order the handler's loop meets them.
RECURSIVE InOrder(_)
InOrder(S) ==
    IF S = {} THEN << >>
    ELSE LET h == CHOOSE x \in S : \A y \in S : x <= y
         IN  << h >> \o InOrder(S \ {h})

\* Activity.__text_channel_members_changed_cb(message, added, removed, ...)
activity_members_changed_cb(a, added) ==
    IF a.watched
    THEN [a EXCEPT !.buddy_log =
              @ \o [i \in 1..Cardinality(added) |->
                      [signal |-> "buddy-joined", handle |-> InOrder(added)[i]]]]
    ELSE a

RECURSIVE ActivityHearsJoin(_, _, _, _)
ActivityHearsJoin(a, es, text, tubes) ==
    IF es = << >> THEN a
    ELSE ActivityHearsJoin(activity_joined_cb(a, Head(es), text, tubes),
                           Tail(es), text, tubes)

RECURSIVE ActivityHearsShare(_, _, _, _)
ActivityHearsShare(a, s, es, published) ==
    IF es = << >> THEN a
    ELSE ActivityHearsShare(activity_shared_cb(a, s, Head(es), published),
                            s, Tail(es), published)

\* The 'removed' of a MembersChanged that n handlers of the Activity are
\* called with, noted where the buddy signals are recorded.
Removals(a, removed, n) ==
    IF a.watched /\ n > 0
    THEN [a EXCEPT !.buddy_log =
              @ \o [i \in 1..Cardinality(removed) |->
                      [signal |-> "removed", handle |-> InOrder(removed)[i]]]]
    ELSE a

\* MembersChanged with 'added' delivered to n handlers of the Activity.
RECURSIVE ActivityHearsMembers(_, _, _)
ActivityHearsMembers(a, added, n) ==
    IF n = 0 THEN a
    ELSE ActivityHearsMembers(activity_members_changed_cb(a, added), added,
                              n - 1)

\* ------------------------------------------------------------- what follows
\* What a step of the coordinator brings about outside it.
\* The 'finished' signals the step emits.
JoinEmits == SubSeq(emitted', Len(emitted) + 1, Len(emitted'))

\* The 'finished' signals the share command emits in the step.
ShareEmits ==
    SubSeq(share'.emitted, Len(share.emitted) + 1, Len(share'.emitted))

\* The Activity once the handlers it connected to 'finished' have run.
Heard(published) ==
    IF listener = "activity"
    THEN ActivityHearsJoin(activity, JoinEmits, text_channel', tubes_channel')
    ELSE IF activity.share_commands > 0
    THEN ActivityHearsShare(activity, share', ShareEmits, published)
    ELSE activity

\* The ways _publish_properties can end where __shared_cb may run.
Publishing == IF activity.share_commands > 0 THEN BOOLEAN ELSE {TRUE}

\* The handlers connected to the coordinator's 'finished' run inside the step.
NotifyShare ==
    /\ listener' = listener
    /\ share' = IF listener = "share"
                THEN ShareHears(share, JoinEmits, text_channel', tubes_channel')
                ELSE share

Notify ==
    /\ NotifyShare
    /\ \E published \in Publishing : activity' = Heard(published)

Follow == UNCHANGED fnVars /\ Notify

\* The same for a step in which the group sent MembersChanged with 'added':
\* the Activity's MembersChanged handlers hear it too.  Whether a handler
\* connected while the signal is being dispatched is called for that same
\* signal is up to the D-Bus binding.
FollowMembers(added, removed) ==
    /\ UNCHANGED fnVars
    /\ NotifyShare
    /\ \E published \in Publishing :
          \E n \in {activity.members_subs, Heard(published).members_subs} :
             activity' = ActivityHearsMembers(
                            Removals(Heard(published), removed, n), added, n)

FollowMembersChanged(added) == FollowMembers(added, {})

\* The same for a step in which the group sent GroupFlagsChanged: the flag
\* change is recorded if the handler ran on stored flags.
FollowFlagsChanged(added, removed) ==
    /\ flag_log' =
          IF /\ flag_trace_on
             /\ subs[GroupFlagsChanged] > 0
             /\ text_channel_group_flags # NoFlags
          THEN Append(flag_log, [before |-> text_channel_group_flags,
                                 added |-> added, removed |-> removed])
          ELSE flag_log
    /\ UNCHANGED << flag_trace_on, prop_specs, props_to_set, props_pc >>
    /\ Notify

\* ----------------------------------------------------------------- actions

\* _JoinCommand.run()
run ==
    /\ runs' = runs + 1
    /\ IF finished
       THEN /\ raised' = raised \cup {"RuntimeError"}
            /\ UNCHANGED << pending, issued >>
       ELSE /\ pending' = Issue({Call(RequestChannelText, 0),
                                 Call(RequestChannelTubes, 0)})
            /\ issued' = Count({RequestChannelText, RequestChannelTubes})
            /\ UNCHANGED raised
    /\ UNCHANGED << coord, emitted, succeeded, failed, subs, announce,
                    nsignals, text_props >>

\* The caller runs a new coordinator.
Start == runs = 0 /\ run /\ Follow

\* A caller runs the same coordinator again.
Restart == runs >= 1 /\ runs < MaxRuns /\ run /\ Follow

\* __create_text_channel_cb(channel_path): builds the Channel proxy, whose
\* ready_handler is called later.
create_text_channel_cb ==
    /\ BagIn(Call(RequestChannelText, 0), pending)
    /\ pending' = Answer(Call(RequestChannelText, 0)) (+) SetToBag({Call(TextReady, 0)})
    /\ issued' = Count({TextReady})
    /\ succeeded' = succeeded \cup {RequestChannelText}
    /\ UNCHANGED << coord, emitted, raised, failed, subs, announce, nsignals,
                    runs, text_props >>
    /\ Follow

\* __create_tubes_channel_cb(channel_path)
create_tubes_channel_cb ==
    /\ BagIn(Call(RequestChannelTubes, 0), pending)
    /\ pending' = Answer(Call(RequestChannelTubes, 0)) (+) SetToBag({Call(TubesReady, 0)})
    /\ issued' = Count({TubesReady})
    /\ succeeded' = succeeded \cup {RequestChannelTubes}
    /\ UNCHANGED << coord, emitted, raised, failed, subs, announce, nsignals,
                    runs, text_props >>
    /\ Follow

\* The error reply of a call whose error_handler is __error_handler_cb.
ReplyError(op) ==
    /\ op \in ErrorRouted
    /\ BagIn(Call(op, 0), pending)
    /\ pending' = Answer(Call(op, 0))
    /\ failed' = failed \cup {op}
    /\ LET c == error_handler_cb(Here, op)
       IN  /\ finished' = c.finished
           /\ emitted' = c.emitted
    /\ UNCHANGED << text_channel, tubes_channel, self_handle,
                    text_channel_group_flags, raised, issued, succeeded, subs,
                    announce, nsignals, runs, text_props >>
    /\ Follow

\* __text_channel_ready_cb(channel)
text_channel_ready_cb(channel) ==
    /\ BagIn(Call(TextReady, 0), pending)
    /\ text_channel' = channel
    /\ succeeded' = succeeded \cup {TextReady}
    /\ IF tubes_ready(channel, tubes_channel)
       THEN /\ pending' = Answer(Call(TextReady, 0)) (+) SetToBag(add_self_to_channel)
            /\ issued' = Count({GetSelfHandle})
       ELSE /\ pending' = Answer(Call(TextReady, 0))
            /\ UNCHANGED issued
    /\ UNCHANGED << finished, tubes_channel, self_handle,
                    text_channel_group_flags, emitted, raised, failed, subs,
                    announce, nsignals, runs, text_props >>
    /\ Follow

\* __tubes_channel_ready_cb(channel)
tubes_channel_ready_cb(channel) ==
    /\ BagIn(Call(TubesReady, 0), pending)
    /\ tubes_channel' = channel
    /\ succeeded' = succeeded \cup {TubesReady}
    /\ IF tubes_ready(text_channel, channel)
       THEN /\ pending' = Answer(Call(TubesReady, 0)) (+) SetToBag(add_self_to_channel)
            /\ issued' = Count({GetSelfHandle})
       ELSE /\ pending' = Answer(Call(TubesReady, 0))
            /\ UNCHANGED issued
    /\ UNCHANGED << finished, text_channel, self_handle,
                    text_channel_group_flags, emitted, raised, failed, subs,
                    announce, nsignals, runs, text_props >>
    /\ Follow

\* got_self_handle(self_handle), the reply of GetSelfHandle
got_self_handle(h) ==
    /\ BagIn(Call(GetSelfHandle, 0), pending)
    /\ self_handle' = h
    /\ subs' = [subs EXCEPT ![GroupFlagsChanged] = @ + 1]
    /\ pending' = Answer(Call(GetSelfHandle, 0)) (+) SetToBag({Call(GetGroupFlags, 0)})
    /\ issued' = Count({GetGroupFlags})
    /\ succeeded' = succeeded \cup {GetSelfHandle}
    /\ UNCHANGED << finished, text_channel, tubes_channel,
                    text_channel_group_flags, emitted, raised, failed,
                    announce, nsignals, runs, text_props >>
    /\ Follow

\* A faulty variant: fetches the members without connecting to MembersChanged.
got_group_flags_no_connect(flags) ==
    /\ BagIn(Call(GetGroupFlags, 0), pending)
    /\ text_channel_group_flags' = flags
    /\ pending' = Answer(Call(GetGroupFlags, 0)) (+) SetToBag({Call(GetAllMembers, 0)})
    /\ issued' = Count({GetAllMembers})
    /\ succeeded' = succeeded \cup {GetGroupFlags}
    /\ UNCHANGED << finished, text_channel, tubes_channel, self_handle,
                    emitted, raised, failed, subs, announce, nsignals, runs,
                    text_props >>
    /\ Follow

\* got_group_flags(flags), the reply of GetGroupFlags
got_group_flags(flags) ==
    /\ BagIn(Call(GetGroupFlags, 0), pending)
    /\ text_channel_group_flags' = flags
    /\ subs' = [subs EXCEPT ![MembersChanged] = @ + 1]
    /\ pending' = Answer(Call(GetGroupFlags, 0)) (+) SetToBag({Call(GetAllMembers, 0)})
    /\ issued' = Count({GetAllMembers})
    /\ succeeded' = succeeded \cup {GetGroupFlags}
    /\ UNCHANGED << finished, text_channel, tubes_channel, self_handle,
                    emitted, raised, failed, announce, nsignals, runs,
                    text_props >>
    /\ Follow

\* A faulty variant: asks to be added whatever the fetched members are.
got_all_members_always_adds(members) ==
    /\ BagIn(Call(GetAllMembers, 0), pending)
    /\ succeeded' = succeeded \cup {GetAllMembers}
    /\ LET c == IF members # {}
                THEN text_channel_members_changed_cb(Here, members)
                ELSE Here
       IN  /\ finished' = c.finished
           /\ emitted' = c.emitted
           /\ pending' = Answer(Call(GetAllMembers, 0))
                             (+) SetToBag({Call(AddMembers, self_handle)})
           /\ issued' = Count({AddMembers})
           /\ UNCHANGED raised
    /\ UNCHANGED << text_channel, tubes_channel, self_handle,
                    text_channel_group_flags, failed, subs, announce,
                    nsignals, runs, text_props >>
    /\ Follow

\* got_all_members(members, local_pending, remote_pending), the reply of
\* GetAllMembers
got_all_members(members) ==
    /\ BagIn(Call(GetAllMembers, 0), pending)
    /\ succeeded' = succeeded \cup {GetAllMembers}
    /\ LET c == IF members # {}
                THEN text_channel_members_changed_cb(Here, members)
                ELSE Here
       IN  /\ finished' = c.finished
           /\ emitted' = c.emitted
           /\ IF self_handle \in members
              THEN /\ raised' = IF c.finished THEN raised
                                ELSE raised \cup {"AssertionError"}
                   /\ pending' = Answer(Call(GetAllMembers, 0))
                   /\ UNCHANGED issued
              ELSE /\ pending' = Answer(Call(GetAllMembers, 0))
                                    (+) SetToBag({Call(AddMembers, self_handle)})
                   /\ issued' = Count({AddMembers})
                   /\ UNCHANGED raised
    /\ UNCHANGED << text_channel, tubes_channel, self_handle,
                    text_channel_group_flags, failed, subs, announce,
                    nsignals, runs, text_props >>
    /\ Follow

\* AddMembers([h]) succeeded: reply_handler is "lambda: None".  The room has
\* admitted h and will say so in a MembersChanged signal.
add_members_reply(h) ==
    /\ BagIn(Call(AddMembers, h), pending)
    /\ pending' = Answer(Call(AddMembers, h))
    /\ succeeded' = succeeded \cup {AddMembers}
    /\ announce' = announce \cup {h}
    /\ UNCHANGED << coord, emitted, raised, issued, failed, subs, nsignals,
                    runs, text_props >>
    /\ Follow

\* AddMembers([h]) failed: error_handler calls self._join_failed_cb, which
\* _JoinCommand does not define, so the callback raises AttributeError.
add_members_error(h) ==
    /\ BagIn(Call(AddMembers, h), pending)
    /\ pending' = Answer(Call(AddMembers, h))
    /\ failed' = failed \cup {AddMembers}
    /\ raised' = raised \cup {"AttributeError"}
    /\ UNCHANGED << coord, emitted, issued, succeeded, subs, announce,
                    nsignals, runs, text_props >>
    /\ Follow

\* The group of the text channel sends MembersChanged with 'added'.
MembersChangedSignal(added) ==
    /\ RequestChannelText \in succeeded
    /\ nsignals < MaxSignals
    /\ nsignals' = nsignals + 1
    /\ LET c == DeliverMembersChanged(Here, added, subs[MembersChanged])
       IN  /\ finished' = c.finished
           /\ emitted' = c.emitted
    /\ UNCHANGED << text_channel, tubes_channel, self_handle,
                    text_channel_group_flags, raised, pending, issued,
                    succeeded, failed, subs, announce, runs, text_props >>
    /\ FollowMembersChanged(added)

\* The MembersChanged signal by which the room reports a handle it admitted
\* on AddMembers.
MembersChangedAdmitted(h) ==
    /\ h \in announce
    /\ announce' = announce \ {h}
    /\ LET c == DeliverMembersChanged(Here, {h}, subs[MembersChanged])
       IN  /\ finished' = c.finished
           /\ emitted' = c.emitted
    /\ UNCHANGED << text_channel, tubes_channel, self_handle,
                    text_channel_group_flags, raised, pending, issued,
                    succeeded, failed, subs, nsignals, runs, text_props >>
    /\ FollowMembersChanged({h})

\* The group of the text channel sends GroupFlagsChanged(added, removed).
\* With the stored flags still None, "None |= added" raises TypeError.
GroupFlagsChangedSignal(added, removed) ==
    /\ RequestChannelText \in succeeded
    /\ nsignals < MaxSignals
    /\ nsignals' = nsignals + 1
    /\ IF subs[GroupFlagsChanged] = 0
       THEN UNCHANGED << text_channel_group_flags, raised >>
       ELSE IF text_channel_group_flags = NoFlags
       THEN /\ raised' = raised \cup {"TypeError"}
            /\ UNCHANGED text_channel_group_flags
       ELSE /\ text_channel_group_flags' =
                  DeliverFlagsChanged(text_channel_group_flags, added, removed,
                                      subs[GroupFlagsChanged])
            /\ UNCHANGED raised
    /\ UNCHANGED << finished, text_channel, tubes_channel, self_handle,
                    emitted, pending, issued, succeeded, failed, subs,
                    announce, runs, text_props >>
    /\ FollowFlagsChanged(added, removed)

Next ==
    \/ Start
    \/ create_text_channel_cb
    \/ create_tubes_channel_cb
    \/ \E op \in ErrorRouted : ReplyError(op)
    \/ text_channel_ready_cb(TextPath)
    \/ tubes_channel_ready_cb(TubesPath)
    \/ \E h \in Handles : got_self_handle(h)
    \/ \E f \in FlagValues : got_group_flags(f)
    \/ \E m \in SUBSET Handles : got_all_members(m)
    \/ \E h \in Handles : add_members_reply(h)
    \/ \E h \in Handles : add_members_error(h)
    \/ \E a \in SUBSET Handles : MembersChangedSignal(a)
    \/ \E h \in Handles : MembersChangedAdmitted(h)
    \/ \E a \in FlagValues, r \in FlagValues : GroupFlagsChangedSignal(a, r)

Spec == Init /\ [][Next]_vars

\* The same, with callers that run a coordinator more than once.
NextReuse == Next \/ Restart

SpecReuse == Init /\ [][NextReuse]_vars

\* The main loop hands over the signal of an admission the room has made.
SpecLive ==
    Spec /\ WF_vars(\E h \in Handles : MembersChangedAdmitted(h))

\* ------------------------------------------------------ the share command
\* The callbacks of a running coordinator.
Callbacks ==
    \/ create_text_channel_cb
    \/ create_tubes_channel_cb
    \/ \E op \in ErrorRouted : ReplyError(op)
    \/ text_channel_ready_cb(TextPath)
    \/ tubes_channel_ready_cb(TubesPath)
    \/ \E h \in Handles : got_self_handle(h)
    \/ \E f \in FlagValues : got_group_flags(f)
    \/ \E m \in SUBSET Handles : got_all_members(m)
    \/ \E h \in Handles : add_members_reply(h)
    \/ \E h \in Handles : add_members_error(h)
    \/ \E a \in SUBSET Handles : MembersChangedSignal(a)
    \/ \E h \in Handles : MembersChangedAdmitted(h)
    \/ \E a \in FlagValues, r \in FlagValues : GroupFlagsChangedSignal(a, r)

joinVars == << coord, emitted, raised, pending, issued, succeeded, failed,
              subs, announce, nsignals, runs, text_props >>

SharePending(op) == share.issued[op] > share.answered[op]

\* _ShareCommand.run()
share_run ==
    /\ share.runs = 0
    /\ share' = [share EXCEPT !.runs = 1, !.issued[RequestHandles] = @ + 1]
    /\ UNCHANGED << joinVars, fnVars, listener, activity >>

\* __got_handles_cb(handles) with handles[0] = h: stores the room handle,
\* creates the inner _JoinCommand, connects __joined_cb and runs it.
got_handles_cb(h) ==
    /\ SharePending(RequestHandles)
    /\ listener = "none"
    /\ share' = [share EXCEPT !.answered[RequestHandles] = @ + 1,
                              !.succeeded = @ \cup {RequestHandles},
                              !.room_handle = h]
    /\ listener' = "share"
    /\ runs = 0
    /\ run
    /\ UNCHANGED << fnVars, activity >>

\* _ShareCommand.__error_handler_cb(error), error that of call op.
share_error_handler_cb(op) ==
    /\ SharePending(op)
    /\ share' = [share EXCEPT !.answered[op] = @ + 1,
                              !.failed = @ \cup {op},
                              !.finished = TRUE,
                              !.emitted = Append(@, op)]
    /\ UNCHANGED << joinVars, fnVars, listener >>
    /\ \E published \in Publishing : activity' = Heard(published)

\* __added_activity_cb()
added_activity_cb ==
    /\ SharePending(AddActivity)
    /\ share' = [share EXCEPT !.answered[AddActivity] = @ + 1,
                              !.succeeded = @ \cup {AddActivity},
                              !.finished = TRUE,
                              !.emitted = Append(@, None)]
    /\ UNCHANGED << joinVars, fnVars, listener >>
    /\ \E published \in Publishing : activity' = Heard(published)

NextShare ==
    \/ share_run
    \/ \E h \in Handles : got_handles_cb(h)
    \/ \E op \in ShareOps : share_error_handler_cb(op)
    \/ added_activity_cb
    \/ Callbacks

SpecShare == Init /\ [][NextShare]_vars

\* ------------------------------------------------------------ the activity
\* Activity.join().  The call on an Activity that has neither a room handle
\* nor a coordinator and is not joined is left out: what RequestChannel does
\* with a handle of None is the D-Bus binding's business.  The callbacks of
\* a _JoinCommand created while another coordinator's are being followed
\* are not followed.
activity_join ==
    /\ activity.join_calls + activity.share_calls < MaxCalls
    /\ IF activity.join_command
       THEN /\ activity' = [activity EXCEPT !.join_calls = @ + 1]
            /\ UNCHANGED << joinVars, listener >>
       ELSE IF activity.joined
       THEN /\ activity' =
                  [activity EXCEPT !.join_calls = @ + 1,
                                   !.joined_log = Append(@, [success |-> TRUE,
                                                             message |-> None])]
            /\ UNCHANGED << joinVars, listener >>
       ELSE /\ activity.room_handle # NoHandle
            /\ IF runs = 0
               THEN /\ activity' = [activity EXCEPT !.join_calls = @ + 1,
                                                    !.join_command = TRUE,
                                                    !.joins_started = @ + 1]
                    /\ listener' = "activity"
                    /\ run
               ELSE /\ activity' = [activity EXCEPT !.join_calls = @ + 1,
                                                    !.join_command = TRUE,
                                                    !.joins_started = @ + 1,
                                                    !.later_joins = @ + 1]
                    /\ UNCHANGED << joinVars, listener >>
    /\ UNCHANGED << fnVars, share >>

\* Activity.share(share_activity_cb, share_activity_error_cb): a new
\* _ShareCommand each time.  'share' is the first of them; of the later ones
\* only the handle lookup is followed.
activity_share ==
    /\ activity.join_calls + activity.share_calls < MaxCalls
    /\ IF activity.room_handle # NoHandle
       THEN /\ activity' = [activity EXCEPT !.share_calls = @ + 1,
                                            !.raised = @ \cup {"ValueError"}]
            /\ UNCHANGED share
       ELSE IF activity.share_commands = 0
       THEN /\ activity' = [activity EXCEPT !.share_calls = @ + 1,
                                            !.share_commands = 1]
            /\ share' = [share EXCEPT !.runs = @ + 1,
                                      !.issued[RequestHandles] = @ + 1]
       ELSE /\ activity' = [activity EXCEPT !.share_calls = @ + 1,
                                            !.share_commands = @ + 1,
                                            !.more_lookups = @ + 1]
            /\ UNCHANGED share
    /\ UNCHANGED << joinVars, fnVars, listener >>

\* The handle lookup of a later _ShareCommand gets an error reply: its
\* __error_handler_cb emits 'finished', which __shared_cb hears.
later_share_error ==
    /\ activity.more_lookups > 0
    /\ activity' = activity_shared_cb(
                       [activity EXCEPT !.more_lookups = @ - 1],
                       NewShare, RequestHandles, TRUE)
    /\ UNCHANGED << joinVars, fnVars, listener, share >>

\* Activity.leave(): Close() on the text channel, once; without a text
\* channel, None.Close() raises AttributeError.
activity_leave ==
    /\ ~activity.closing
    /\ activity' = IF activity.telepathy_text_chan = NoChannel
                   THEN [activity EXCEPT !.raised = @ \cup {"AttributeError"}]
                   ELSE [activity EXCEPT !.closing = TRUE]
    /\ UNCHANGED << joinVars, fnVars, listener, share >>

\* The text channel sends Closed, after leave() or of its own accord, to
\* the handlers _start_tracking_channel connected.
text_channel_closed ==
    /\ activity.closed_subs > 0
    /\ ~activity.closed
    /\ activity' = ActivityHearsClosed([activity EXCEPT !.closed = TRUE],
                                       activity.closed_subs)
    /\ UNCHANGED << joinVars, fnVars, listener, share >>

\* The group of the text channel sends MembersChanged with nobody added and
\* 'removed' gone; the coordinator's handler looks at 'added' only.
MembersRemovedSignal(removed) ==
    /\ RequestChannelText \in succeeded
    /\ nsignals < MaxSignals
    /\ nsignals' = nsignals + 1
    /\ LET c == DeliverMembersChanged(Here, {}, subs[MembersChanged])
       IN  /\ finished' = c.finished
           /\ emitted' = c.emitted
    /\ UNCHANGED << text_channel, tubes_channel, self_handle,
                    text_channel_group_flags, raised, pending, issued,
                    succeeded, failed, subs, announce, runs, text_props >>
    /\ FollowMembers({}, removed)

\* An Activity as its caller constructs it, on a text channel without the
\* Properties interface.
InitActivity ==
    /\ InitCoord
    /\ text_props = [iface |-> FALSE, specs |-> << >>]
    /\ InitFn
    /\ listener = "none"
    /\ share = NewShare
    /\ \E room_handle \in {NoHandle} \cup Handles, joined \in BOOLEAN :
          activity = NewActivity(room_handle, joined)

\* The coordinator's callbacks as far as an Activity can tell them apart:
\* the group flags, which the coordinator only stores, stay as fetched.
ActivityCallbacks ==
    \/ create_text_channel_cb
    \/ create_tubes_channel_cb
    \/ \E op \in ErrorRouted : ReplyError(op)
    \/ text_channel_ready_cb(TextPath)
    \/ tubes_channel_ready_cb(TubesPath)
    \/ \E h \in Handles : got_self_handle(h)
    \/ \E f \in {0} : got_group_flags(f)
    \/ \E m \in SUBSET Handles : got_all_members(m)
    \/ \E h \in Handles : add_members_reply(h)
    \/ \E h \in Handles : add_members_error(h)
    \/ \E a \in SUBSET Handles : MembersChangedSignal(a)
    \/ \E h \in Handles : MembersChangedAdmitted(h)

NextActivity ==
    \/ activity_join
    \/ activity_share
    \/ later_share_error
    \/ \E h \in Handles : got_handles_cb(h)
    \/ \E op \in ShareOps : share_error_handler_cb(op)
    \/ added_activity_cb
    \/ ActivityCallbacks

SpecActivity == InitActivity /\ [][NextActivity]_vars

\* The same Activity with its buddy signals recorded.
InitBuddies ==
    /\ InitCoord
    /\ text_props = [iface |-> FALSE, specs |-> << >>]
    /\ InitFn
    /\ listener = "none"
    /\ share = NewShare
    /\ \E room_handle \in {NoHandle} \cup Handles, joined \in BOOLEAN :
          activity = [NewActivity(room_handle, joined) EXCEPT !.watched = TRUE]

\* An Activity constructed for a room, which its caller joins and leaves.
InitLeave ==
    /\ InitCoord
    /\ text_props = [iface |-> FALSE, specs |-> << >>]
    /\ InitFn
    /\ listener = "none"
    /\ share = NewShare
    /\ \E room_handle \in Handles, joined \in BOOLEAN :
          activity = NewActivity(room_handle, joined)

NextLeave ==
    \/ activity_join
    \/ activity_share
    \/ activity_leave
    \/ text_channel_closed
    \/ ActivityCallbacks

SpecLeave == InitLeave /\ [][NextLeave]_vars

NextBuddies ==
    \/ NextActivity
    \/ \E r \in (SUBSET Handles) \ {{}} : MembersRemovedSignal(r)

SpecBuddies == InitBuddies /\ [][NextBuddies]_vars

\* The loop of __join_activity_channel_props_listed_cb: props.pop(name, None)
\* for each spec in turn, 'left' being the names still in props.
RECURSIVE PropsToSet(_, _, _)
PropsToSet(specs, i, left) ==
    IF i > Len(specs) THEN << >>
    ELSE IF specs[i].name \in left
    THEN (IF Writable(specs[i].flags)
          THEN << [ident |-> specs[i].ident, value |-> props[specs[i].name]] >>
          ELSE << >>)
         \o PropsToSet(specs, i + 1, left \ {specs[i].name})
    ELSE PropsToSet(specs, i + 1, left)

\* __join_activity_channel_props_listed_cb(prop_specs), applied where the
\* code after the return of the membership handler would call it.  With
\* props_to_set non-empty, the arguments of SetProperties are evaluated
\* first, and reply_handler=self._joined_cb raises AttributeError, as
\* self._joined_cb() does with props_to_set empty: _JoinCommand has no such
\* method.
join_activity_channel_props_listed_cb ==
    /\ props_pc = "idle"
    /\ \E i \in 1..Len(emitted) : emitted[i] = None
    /\ props_to_set' = PropsToSet(prop_specs, 1, DOMAIN props)
    /\ props_pc' = "done"
    /\ raised' = raised \cup {"AttributeError"}
    /\ UNCHANGED << coord, emitted, pending, issued, succeeded, failed, subs,
                    announce, nsignals, runs, text_props, flag_trace_on,
                    flag_log, prop_specs, listener, share, activity >>

\* The props-listed callback alone: one run in which every call succeeds,
\* on a text channel that lists prop_specs.
InitProps ==
    /\ InitCoord
    /\ prop_specs \in PropSpecLists
    /\ \E b \in BOOLEAN :
          /\ b \/ prop_specs = << >>
          /\ text_props = [iface |-> b,
                           specs |-> [i \in 1..Len(prop_specs) |->
                                        [name |-> prop_specs[i].name,
                                         flags |-> prop_specs[i].flags]]]
    /\ flag_trace_on = FALSE
    /\ flag_log = << >>
    /\ props_to_set = << >>
    /\ props_pc = "idle"
    /\ InitOut

NextProps ==
    \/ Start
    \/ create_text_channel_cb
    \/ create_tubes_channel_cb
    \/ text_channel_ready_cb(TextPath)
    \/ tubes_channel_ready_cb(TubesPath)
    \/ \E h \in Handles : got_self_handle(h)
    \/ \E f \in FlagValues : got_group_flags(f)
    \/ \E m \in SUBSET Handles : got_all_members(m)
    \/ \E h \in Handles : add_members_reply(h)
    \/ \E h \in Handles : MembersChangedAdmitted(h)
    \/ join_activity_channel_props_listed_cb

SpecProps == InitProps /\ [][NextProps]_vars

\* The flag handler alone: one run in which every call succeeds, and the
\* group sends two flag changes that are recorded.
InitFlags ==
    /\ InitJoin
    /\ ~text_props.iface
    /\ flag_trace_on = TRUE
    /\ flag_log = << >>
    /\ prop_specs = << >>
    /\ props_to_set = << >>
    /\ props_pc = "idle"
    /\ InitOut

FlagsEvent(added, removed) ==
    /\ Len(flag_log) < 2
    /\ GroupFlagsChangedSignal(added, removed)

NextFlags ==
    \/ Start
    \/ create_text_channel_cb
    \/ create_tubes_channel_cb
    \/ text_channel_ready_cb(TextPath)
    \/ tubes_channel_ready_cb(TubesPath)
    \/ \E h \in Handles : got_self_handle(h)
    \/ \E f \in FlagValues : got_group_flags(f)
    \/ \E a \in FlagValues, r \in FlagValues : FlagsEvent(a, r)

SpecFlags == InitFlags /\ [][NextFlags]_vars

\* ------------------------------------------------------------------ claims
Errors == {i \in 1..Len(emitted) : emitted[i] # None}
Successes == {i \in 1..Len(emitted) : emitted[i] = None}
BothReady == text_channel # NoChannel /\ tubes_channel # NoChannel

\* C1: after a single run(), whatever replies, errors and signals arrive, the
\* coordinator emits 'finished' at most once, and exactly once when it has
\* finished.
C1_FinishedExactlyOnce ==
    /\ Len(emitted) <= 1
    /\ finished => Len(emitted) = 1

\* C2: the error reply of any remote call makes the coordinator emit
\* 'finished' carrying that error.
C2_ErrorReplyEmitsThatError ==
    \A op \in failed : op \in Range(emitted)

\* C3: a second run() raises at the call and issues no remote request.
C3_SecondRunRejected ==
    runs >= 2 =>
        /\ "RuntimeError" \in raised
        /\ issued[RequestChannelText] <= 1
        /\ issued[RequestChannelTubes] <= 1

\* C4: GetSelfHandle is issued once both channels are ready, not before and
\* not twice, whichever became ready first; with one channel ready only the
\* two channel requests have been issued.
C4_SelfHandleOnceBothReady ==
    /\ issued[GetSelfHandle] = (IF BothReady THEN 1 ELSE 0)
    /\ ~BothReady =>
          \A o \in RemoteCalls \ {RequestChannelText, RequestChannelTubes} :
              issued[o] = 0

C4_Witness ==
    /\ BothReady
    /\ issued[GetSelfHandle] = 1

\* C5: the handler of GroupFlagsChanged is connected only when the group
\* flags are stored, so no flag change is handed to it with the flags unset.
C5_FlagsFetchedBeforeSubscription ==
    /\ subs[GroupFlagsChanged] > 0 => text_channel_group_flags # NoFlags
    /\ "TypeError" \notin raised

\* C6: when GetAllMembers is issued the handler of MembersChanged is already
\* connected, and it is connected only with the group flags known; so a
\* membership change signalled after the fetch was issued reaches the handler.
C6_SubscribedBeforeMemberFetch ==
    /\ issued[GetAllMembers] > 0 => subs[MembersChanged] > 0
    /\ subs[MembersChanged] > 0 => text_channel_group_flags # NoFlags

\* A signal that raced the fetch was handled: success with the fetch pending.
C6_Witness ==
    /\ BagIn(Call(GetAllMembers, 0), pending)
    /\ emitted = << None >>

\* Steps of the model: a live MembersChanged signal, the bulk fetch reply.
LiveMembersChanged(with) ==
    \/ \E a \in SUBSET Handles : with \in a /\ MembersChangedSignal(a)
    \/ MembersChangedAdmitted(with)
EmitsSuccess ==
    /\ Len(emitted') > Len(emitted)
    /\ emitted'[Len(emitted')] = None

C8_SuccessAfterSetProperties ==
    ( /\ Successes # {}
      /\ text_props.iface
      /\ \E i \in 1..Len(text_props.specs) :
            /\ text_props.specs[i].name \in DOMAIN props
            /\ Writable(text_props.specs[i].flags) )
    => /\ issued[SetProperties] = 1
       /\ SetProperties \in succeeded

\* C9: once AddMembers has succeeded (so every call before it has, and the
\* fetched members did not hold the self handle), no error is ever emitted,
\* success has been emitted when the room's MembersChanged for the admitted
\* handle has been handed over, and that eventually happens.
C9_SuccessfulJoin ==
    /\ [](AddMembers \in succeeded => Errors = {})
    /\ [](AddMembers \in succeeded /\ announce = {} => Successes # {})
    /\ (AddMembers \in succeeded) ~> (Successes # {})

C9_Witness ==
    /\ AddMembers \in succeeded
    /\ announce = {}
    /\ emitted = << None >>
    /\ nsignals = 0

\* C10: when the tubes channel request failed, 'finished' was emitted with
\* that error and is never emitted with success, whatever happens to the
\* text channel request.
C10_TubesOpenFailure ==
    RequestChannelTubes \in failed =>
        /\ RequestChannelTubes \in Range(emitted)
        /\ Successes = {}

\* The tubes request failed although the text channel became ready.
C10_Witness ==
    /\ RequestChannelTubes \in failed
    /\ text_channel # NoChannel

\* C20: once 'finished' has been emitted, a callback changes none of
\* text_channel, tubes_channel, the self handle and the group flags, and
\* issues no remote call.
C20_NoOpAfterFinished ==
    [][finished =>
          /\ UNCHANGED << text_channel, tubes_channel, self_handle,
                          text_channel_group_flags >>
          /\ \A o \in RemoteCalls : issued'[o] = issued[o]]_vars

\* The bits of a flags value, and a flag change as the claim states it.
BitsOf(n) == {i \in 0..(FlagBits - 1) : (n \div 2^i) % 2 = 1}
Changed(S, e) == (S \cup BitsOf(e.added)) \ BitsOf(e.removed)

\* C18: with the flags fetched as F, every flag change handled leaves
\* (flags | added) & ~removed, and two of them, (A1, R1) then (A2, R2), leave
\* (((F | A1) & ~R1) | A2) & ~R2, bit by bit.
C18_FlagDeltas ==
    /\ text_channel_group_flags # NoFlags => text_channel_group_flags \in FlagValues
    /\ Len(flag_log) = 1 =>
          BitsOf(text_channel_group_flags) =
              Changed(BitsOf(flag_log[1].before), flag_log[1])
    /\ Len(flag_log) = 2 =>
          BitsOf(text_channel_group_flags) =
              Changed(Changed(BitsOf(flag_log[1].before), flag_log[1]), flag_log[2])

\* F = 0, then (added 3, removed 1), then (added 1, removed 0): flags 3.
C18_Witness ==
    /\ Len(flag_log) = 2
    /\ flag_log[1] = [before |-> 0, added |-> 3, removed |-> 1]
    /\ flag_log[2].added = 1 /\ flag_log[2].removed = 0
    /\ text_channel_group_flags = 3

\* The (ident, value) pairs the claim wants sent for prop_specs.
WantedProps ==
    { [ident |-> prop_specs[i].ident, value |-> props[prop_specs[i].name]] :
        i \in { j \in 1..Len(prop_specs) :
                  /\ prop_specs[j].name \in DOMAIN props
                  /\ Writable(prop_specs[j].flags) } }

\* C19: the callback sends, in one SetProperties call, exactly the writable
\* policy properties with their policy values; with none to send it makes
\* no call and the join completes with success.
C19_WritablePolicySent ==
    props_pc = "done" =>
        /\ Range(props_to_set) = WantedProps
        /\ WantedProps # {} => issued[SetProperties] = 1
        /\ WantedProps = {} =>
              /\ issued[SetProperties] = 0
              /\ "AttributeError" \notin raised

\* C11: a share command emits 'finished' no more than once and then is
\* finished, and issues AddActivity no more than once, whatever callbacks
\* arrive.
C11_ShareFinishedOnce ==
    /\ Len(share.emitted) <= 1
    /\ share.finished <=> Len(share.emitted) = 1
    /\ share.issued[AddActivity] <= 1

\* C12: the inner coordinator runs only after the handle lookup succeeded,
\* AddActivity is issued only after the inner coordinator reported success
\* (once for each report), and success is emitted only after AddActivity
\* succeeded.
C12_ShareStepsOrdered ==
    /\ (runs > 0 \/ listener = "share") =>
          /\ RequestHandles \in share.succeeded
          /\ share.room_handle # NoHandle
    /\ share.issued[AddActivity] = Cardinality(Successes)
    /\ (\E i \in 1..Len(share.emitted) : share.emitted[i] = None) =>
          AddActivity \in share.succeeded
    /\ AddActivity \in share.succeeded =>
          /\ share.text_channel = TextPath
          /\ share.tubes_channel = TubesPath

C12_Witness ==
    /\ share.emitted = << None >>
    /\ share.succeeded = ShareOps
    /\ Cardinality(Successes) = 1

\* C13: every failed call of the share command and of its inner coordinator
\* has its error emitted by the share command, and no stage is entered a
\* second time.
C13_ShareFailuresForwarded ==
    /\ \A op \in share.failed : op \in Range(share.emitted)
    /\ \A op \in failed : op \in Range(share.emitted)
    /\ \A i \in Errors : emitted[i] \in Range(share.emitted)
    /\ \A op \in ShareOps : share.issued[op] <= 1
    /\ runs <= 1

\* C14: no handle is reported through 'buddy-joined' twice without a
\* 'buddy-left' for it in between.
C14_NoDuplicateBuddyJoined ==
    \A i, j \in 1..Len(activity.buddy_log) :
        (/\ i < j
         /\ activity.buddy_log[i].signal = "buddy-joined"
         /\ activity.buddy_log[j] = activity.buddy_log[i]) =>
        \E k \in (i + 1)..(j - 1) :
            /\ activity.buddy_log[k].signal = "buddy-left"
            /\ activity.buddy_log[k].handle = activity.buddy_log[i].handle

\* C15: join() on an Activity that is joined emits 'joined' with success
\* and starts no coordinator.
C15_JoinWhenJoinedEmits ==
    [][(activity'.join_calls = activity.join_calls + 1 /\ activity.joined) =>
          /\ activity'.joined_log =
                Append(activity.joined_log, [success |-> TRUE, message |-> None])
          /\ runs' = runs
          /\ share'.runs = share.runs]_vars

\* The coordinators the Activity created that have started and not finished.
LiveCoordinators ==
    (IF listener = "activity" /\ runs > 0 /\ ~finished THEN 1 ELSE 0)
    + (IF activity.share_commands > 0 /\ share.runs > 0 /\ ~share.finished
       THEN 1 ELSE 0)
    + activity.more_lookups

\* C16: at most one coordinator created by the Activity is live.
C16_OneLiveCoordinator == LiveCoordinators <= 1

\* Some coordinator of the Activity has delivered finished(None).
DeliveredSuccess ==
    \/ listener = "activity" /\ Successes # {}
    \/ /\ activity.share_commands > 0
       /\ \E i \in 1..Len(share.emitted) : share.emitted[i] = None

\* C17: an Activity constructed as not joined has both channels or neither,
\* has them only once a coordinator delivered finished(None), and has both
\* whenever it is joined.
C17_NoPartialProgress ==
    ~activity.was_joined =>
        /\ activity.telepathy_text_chan = NoChannel
              <=> activity.telepathy_tubes_chan = NoChannel
        /\ activity.telepathy_text_chan # NoChannel =>
              /\ activity.telepathy_text_chan = TextPath
              /\ activity.telepathy_tubes_chan = TubesPath
              /\ DeliveredSuccess
        /\ activity.joined =>
              /\ activity.telepathy_text_chan # NoChannel
              /\ activity.telepathy_tubes_chan # NoChannel

C17_Witness ==
    /\ ~activity.was_joined
    /\ activity.joined
    /\ listener = "activity"
    /\ activity.telepathy_text_chan = TextPath
    /\ activity.telepathy_tubes_chan = TubesPath
    /\ activity.joined_log = << [success |-> TRUE, message |-> None] >>

\* C23: the reply of GetAllMembers makes the coordinator request AddMembers
\* for the self handle exactly when the self handle is not among the
\* fetched members, and AddMembers is requested at most once in a run.
C23_AddMembersIffAbsent ==
    [][\A m \in SUBSET Handles :
          got_all_members(m) =>
             /\ self_handle \notin m =>
                   /\ issued'[AddMembers] = issued[AddMembers] + 1
                   /\ BagIn(Call(AddMembers, self_handle), pending')
             /\ self_handle \in m =>
                   /\ issued'[AddMembers] = issued[AddMembers]
                   /\ \A h \in Handles : ~BagIn(Call(AddMembers, h), pending')
             /\ issued'[AddMembers] <= 1]_vars

C23_Witness ==
    /\ GetAllMembers \in succeeded
    /\ issued[AddMembers] = 1
    /\ BagIn(Call(AddMembers, self_handle), pending)
    /\ emitted = << >>

\* C24: the assertion of got_all_members never fails: when the fetched
\* members hold the self handle, finished is already set.
C24_AssertionHolds == "AssertionError" \notin raised

C24_Witness ==
    /\ GetAllMembers \in succeeded
    /\ issued[AddMembers] = 0
    /\ nsignals = 0
    /\ finished
    /\ emitted = << None >>
    /\ raised = {}

\* C26: finished(None) is emitted only from a state in which both channels
\* are set, the self handle is resolved and the group flags are fetched.
C26_SuccessOnlyWhenAllSet ==
    [][(Len(emitted') > Len(emitted) /\ emitted'[Len(emitted')] = None) =>
          /\ BothReady
          /\ self_handle # NoHandle
          /\ text_channel_group_flags # NoFlags
          /\ text_channel' = text_channel /\ tubes_channel' = tubes_channel
          /\ self_handle' = self_handle]_vars

C26_Witness ==
    /\ Successes # {}
    /\ text_channel = TextPath
    /\ tubes_channel = TubesPath
    /\ self_handle = MaxHandle
    /\ text_channel_group_flags \in FlagValues
    /\ Errors = {}

\* C21: when a share command emits finished(None), its room_handle is the
\* handle the lookup returned and its two channels are those of its inner
\* coordinator, all three set.
C21_ShareSuccessExposes ==
    [][/\ (/\ Len(share'.emitted) > Len(share.emitted)
           /\ share'.emitted[Len(share'.emitted)] = None) =>
              /\ share'.room_handle \in Handles
              /\ share'.text_channel = text_channel'
              /\ share'.tubes_channel = tubes_channel'
              /\ text_channel' # NoChannel
              /\ tubes_channel' # NoChannel
       /\ \A h \in Handles : got_handles_cb(h) => share'.room_handle = h
       /\ share.room_handle # NoHandle =>
              share'.room_handle = share.room_handle]_vars

C21_Witness ==
    /\ share.emitted = << None >>
    /\ share.room_handle = MaxHandle
    /\ share.text_channel = TextPath
    /\ share.tubes_channel = TubesPath

\* C22: every handle in the 'removed' of a membership event the joined
\* Activity is called with, if reported through 'buddy-joined' before, is
\* reported through 'buddy-left'.
C22_RemovedReportedLeft ==
    \A i \in 1..Len(activity.buddy_log) :
        (/\ activity.buddy_log[i].signal = "removed"
         /\ \E j \in 1..(i - 1) :
               activity.buddy_log[j] =
                  [signal |-> "buddy-joined",
                   handle |-> activity.buddy_log[i].handle]) =>
        \E k \in (i + 1)..Len(activity.buddy_log) :
            activity.buddy_log[k] =
               [signal |-> "buddy-left", handle |-> activity.buddy_log[i].handle]

====
